---- MODULE Spec2Model ----
(***************************************************************************)
(* A model of googlemaps.py: the GoogleMapsScraper class (search_and_scrape,*)
(* handle_consent, parse_results, save_to_csv, close) and main().          *)
(*                                                                         *)
(* Text (tag text, names, phones, addresses) is a sequence of one-character *)
(* strings, so that str.split and str.strip are modelled by what they do.  *)
(* A markup page is the sequence of its candidate listings (the divs whose *)
(* jsaction matches mouseover:pane); a listing is a record of the three    *)
(* inner tags parse_results looks up, each present or absent.              *)
(*                                                                         *)
(* Exceptions are of class Exception (WebDriverException, TimeoutException,*)
(* NoSuchElementException, OSError ...): every call into the browser       *)
(* driver, the parser or the file writer either succeeds or raises.        *)
(***************************************************************************)
EXTENDS Integers, Sequences, FiniteSets, TLC

(***************************************************************************)
(* Bounds of the model.                                                    *)
(***************************************************************************)
\* scrollHeight values the page may report are 1..MaxHeight
MaxHeight == 3
\* measurements (initial one included) observed in one call of search_and_scrape
MaxMeasurements == 13
\* height changes observed in one call of search_and_scrape
MaxChanges == 2
\* candidate listings on a page
MaxListings == 2
\* candidate listings on each page of a run that reaches save_to_csv
MaxSaveListings == 1
\* characters in an address container's text
MaxText == 5

(***************************************************************************)
(* Program constants.                                                      *)
(***************************************************************************)
\* line 97
max_scroll_attempts == 10

\* lines 194-197; the nested loops of lines 201-203 visit them in this order
keywords == <<"motorcycle", "motorcycle showroom", "bike repair", "motorcycle service">>
districts == <<"Dhaka">>

Queries ==
  [i \in 1..(Len(districts) * Len(keywords)) |->
     [district |-> districts[((i - 1) \div Len(keywords)) + 1],
      keyword  |-> keywords[((i - 1) % Len(keywords)) + 1]]]

\* the sentinel of line 135
NA == <<"N", "/", "A">>

\* the separator of line 143
MiddleDot == "·"

\* whitespace, as str.strip() sees it
Whitespace == {" "}

(***************************************************************************)
(* Text helpers: str.split(sep) and str.strip().                           *)
(***************************************************************************)
RECURSIVE SplitFrom(_, _, _, _)
\* scan text from index i; cur is the segment being collected
SplitFrom(text, sep, i, cur) ==
  IF i > Len(text) THEN <<cur>>
  ELSE IF text[i] = sep THEN <<cur>> \o SplitFrom(text, sep, i + 1, <<>>)
  ELSE SplitFrom(text, sep, i + 1, Append(cur, text[i]))

split(text, sep) == SplitFrom(text, sep, 1, <<>>)

RECURSIVE lstrip(_)
lstrip(s) == IF s # <<>> /\ Head(s) \in Whitespace THEN lstrip(Tail(s)) ELSE s

RECURSIVE rstrip(_)
rstrip(s) ==
  IF s # <<>> /\ s[Len(s)] \in Whitespace THEN rstrip(SubSeq(s, 1, Len(s) - 1)) ELSE s

strip(s) == rstrip(lstrip(s))

(***************************************************************************)
(* Markup.                                                                 *)
(***************************************************************************)
Absent == [present |-> FALSE, text |-> <<>>]
Tag(t) == [present |-> TRUE, text |-> t]

Listing(n, p, a) == [name_tag |-> n, phone_tag |-> p, address_container |-> a]

RECURSIVE SeqsUpTo(_, _)
\* the sequences over S of length at most n
SeqsUpTo(S, n) ==
  IF n = 0 THEN {<<>>}
  ELSE LET shorter == SeqsUpTo(S, n - 1)
       IN  shorter \cup {Append(s, x) : s \in {t \in shorter : Len(t) = n - 1}, x \in S}

(***************************************************************************)
(* parse_results, lines 123-163.                                           *)
(***************************************************************************)
\* address_of with line 145 taking the first part, address_parts[0]
address_of_first_part(address_container) ==
  IF address_container.present
  THEN LET address_parts == split(address_container.text, MiddleDot)
       IN  IF Len(address_parts) > 1
           THEN strip(address_parts[1])
           ELSE address_container.text
  ELSE <<>>

\* lines 141-149
address_of(address_container) ==
  IF address_container.present
  THEN LET address_parts == split(address_container.text, MiddleDot)
       IN  IF Len(address_parts) > 1
           THEN strip(address_parts[Len(address_parts)])
           ELSE address_container.text
  ELSE <<>>

\* line 135
name_of(name_tag) == IF name_tag.present THEN name_tag.text ELSE NA

\* line 138
phone_of(phone_tag) == IF phone_tag.present THEN phone_tag.text ELSE <<>>

\* lines 132-154: the business_data of one listing
business_data(listing, district_, keyword_) ==
  [name     |-> name_of(listing.name_tag),
   phone    |-> phone_of(listing.phone_tag),
   address  |-> address_of(listing.address_container),
   district |-> district_,
   category |-> keyword_]

\* line 156
keep_listing(data) == data.name # NA

RECURSIVE parse_results(_, _, _)
\* lines 126-163: the loop over the listings, in page order
parse_results(listings, district_, keyword_) ==
  IF listings = <<>> THEN <<>>
  ELSE LET data == business_data(Head(listings), district_, keyword_)
           rest == parse_results(Tail(listings), district_, keyword_)
       IN  IF keep_listing(data) THEN <<data>> \o rest ELSE rest

(***************************************************************************)
(* save_to_csv's data path, lines 171-178.                                 *)
(***************************************************************************)
\* the subset=['name', 'address'] of line 178
dedup_key(row) == <<row.name, row.address>>

RECURSIVE DropFrom(_, _, _)
\* rows from index i on whose key has not been seen yet are retained
DropFrom(rows, i, seen) ==
  IF i > Len(rows) THEN <<>>
  ELSE IF dedup_key(rows[i]) \in seen THEN DropFrom(rows, i + 1, seen)
  ELSE <<rows[i]>> \o DropFrom(rows, i + 1, seen \cup {dedup_key(rows[i])})

RECURSIVE DropBefore(_, _, _)
\* rows up to index i whose key is not seen later are retained
DropBefore(rows, i, seen) ==
  IF i < 1 THEN <<>>
  ELSE IF dedup_key(rows[i]) \in seen THEN DropBefore(rows, i - 1, seen)
  ELSE DropBefore(rows, i - 1, seen \cup {dedup_key(rows[i])}) \o <<rows[i]>>

\* drop_duplicates with keep='last'
drop_duplicates_keep_last(rows) == DropBefore(rows, Len(rows), {})

\* DataFrame.drop_duplicates(subset=['name', 'address'], keep='first')
drop_duplicates(rows) == DropFrom(rows, 1, {})

\* save_to_csv's guard of line 167 and its data path: the rows handed to to_csv
save_to_csv_rows(businesses_) ==
  IF businesses_ = <<>> THEN <<>> ELSE drop_duplicates(businesses_)

(***************************************************************************)
(* State.                                                                  *)
(***************************************************************************)
VARIABLES
  \* main()
  pc,                 \* main's position: "for", "call", "except", "finally", "done",
                      \* "crashed"; "direct" when search_and_scrape is called on its own
  qi,                 \* how many (district, keyword) iterations have been started
  all_businesses,     \* line 199
  save_calls,         \* calls of save_to_csv made so far
  save_arg,           \* the businesses argument of the last save_to_csv call
  files_written,      \* completed to_csv calls
  csv_rows,           \* the rows of the file written by to_csv
  log_critical,       \* line 223 was executed
  \* the browser session
  driver,             \* "open" after setup_selenium_driver, "closed" after quit
  quit_calls,         \* calls of driver.quit made so far
  late_ops,           \* some driver operation was issued after quit
  \* the frame of search_and_scrape
  sp,                 \* its position, "idle" when no call is active
  keyword, district,  \* its arguments
  businesses,         \* line 65, line 115
  scrollable_element, \* line 81: "None", "results", "feed", "body"
  last_height, new_height, scroll_attempts,
  page_source,        \* line 114
  tried,              \* the locators evaluated so far, in order
  scrolled,           \* the elements handed to execute_script
  \* the scrollHeight values returned to this call so far (observed in SpecScrape)
  heights

mainVars == <<pc, qi, all_businesses, save_calls, save_arg, files_written, csv_rows,
              log_critical>>
driverVars == <<driver, quit_calls, late_ops>>
loopVars == <<last_height, new_height, scroll_attempts>>
frameVars == <<sp, keyword, district, businesses, scrollable_element, loopVars,
               page_source, tried, scrolled>>
vars == <<mainVars, driverVars, frameVars, heights>>

NoFrame ==
  /\ sp = "idle" /\ keyword = "" /\ district = ""
  /\ businesses = <<>> /\ scrollable_element = "None"
  /\ last_height = 0 /\ new_height = 0 /\ scroll_attempts = 0
  /\ page_source = <<>> /\ tried = <<>> /\ scrolled = {}

\* the state after GoogleMapsScraper() of line 191 has returned
Init ==
  /\ pc = "for" /\ qi = 0 /\ all_businesses = <<>>
  /\ save_calls = 0 /\ save_arg = <<>> /\ files_written = 0 /\ csv_rows = <<>>
  /\ log_critical = FALSE
  /\ driver = "open" /\ quit_calls = 0 /\ late_ops = FALSE
  /\ NoFrame
  /\ heights = <<>>

Heights == 1..MaxHeight

\* the changes of height in a sequence of measurements
Changes(hs) == Cardinality({i \in 2..Len(hs) : hs[i] # hs[i - 1]})

\* the page reports scrollHeight h; a call made on its own, not from main, logs it
Observe(h) ==
  IF pc = "direct"
  THEN /\ Len(heights) < MaxMeasurements
       /\ Changes(Append(heights, h)) <= MaxChanges
       /\ heights' = Append(heights, h)
  ELSE UNCHANGED heights

\* one operation on self.driver other than quit
DriverOp ==
  /\ late_ops' = (late_ops \/ driver = "closed")
  /\ UNCHANGED <<driver, quit_calls>>

(***************************************************************************)
(* search_and_scrape, lines 63-121.                                        *)
(***************************************************************************)
\* lines 117-121: the handler of the try of line 74, then the return
Caught ==
  /\ sp' = "return"
  /\ businesses' = businesses

\* line 71: driver.get(url), before the try of line 74
Navigate ==
  /\ sp = "get"
  /\ DriverOp
  /\ \E ok \in BOOLEAN : sp' = IF ok THEN "consent" ELSE "raised"
  /\ UNCHANGED <<heights, mainVars, keyword, district, businesses, scrollable_element,
                 loopVars, page_source, tried, scrolled>>

\* line 72, lines 51-61: the button is clicked, or the wait or the click raises
\* and line 60 swallows it
HandleConsent ==
  /\ sp = "consent"
  /\ DriverOp
  /\ \E clicked \in BOOLEAN : sp' = "wait"
  /\ UNCHANGED <<heights, mainVars, keyword, district, businesses, scrollable_element,
                 loopVars, page_source, tried, scrolled>>

\* lines 76-78
WaitResults ==
  /\ sp = "wait"
  /\ DriverOp
  /\ \E ok \in BOOLEAN : IF ok THEN sp' = "locate_results" /\ UNCHANGED businesses
                         ELSE Caught
  /\ UNCHANGED <<heights, mainVars, keyword, district, scrollable_element,
                 loopVars, page_source, tried, scrolled>>

\* LocateResults with the handler of line 86 going straight to the body
LocateResultsSkipsFeed ==
  /\ sp = "locate_results"
  /\ DriverOp
  /\ tried' = Append(tried, "results")
  /\ \E found \in BOOLEAN :
       IF found THEN sp' = "height" /\ scrollable_element' = "results"
                ELSE sp' = "locate_body" /\ UNCHANGED scrollable_element
  /\ UNCHANGED <<heights, mainVars, keyword, district, businesses, loopVars, page_source, scrolled>>

\* lines 81-86: the element labelled 'Results for'
LocateResults ==
  /\ sp = "locate_results"
  /\ DriverOp
  /\ tried' = Append(tried, "results")
  /\ \E found \in BOOLEAN :
       IF found THEN sp' = "height" /\ scrollable_element' = "results"
                ELSE sp' = "locate_feed" /\ UNCHANGED scrollable_element
  /\ UNCHANGED <<heights, mainVars, keyword, district, businesses, loopVars, page_source, scrolled>>

\* lines 87-91: the element with role feed
LocateFeed ==
  /\ sp = "locate_feed"
  /\ DriverOp
  /\ tried' = Append(tried, "feed")
  /\ \E found \in BOOLEAN :
       IF found THEN sp' = "height" /\ scrollable_element' = "feed"
                ELSE sp' = "locate_body" /\ UNCHANGED scrollable_element
  /\ UNCHANGED <<heights, mainVars, keyword, district, businesses, loopVars, page_source, scrolled>>

\* lines 92-93: find_element raises NoSuchElementException when there is no body
LocateBody ==
  /\ sp = "locate_body"
  /\ DriverOp
  /\ tried' = Append(tried, "body")
  /\ \E found \in BOOLEAN :
       IF found THEN sp' = "height" /\ scrollable_element' = "body" /\ UNCHANGED businesses
                ELSE Caught /\ UNCHANGED scrollable_element
  /\ UNCHANGED <<heights, mainVars, keyword, district, loopVars, page_source, scrolled>>

\* lines 95-97
MeasureInitial ==
  /\ sp = "height"
  /\ DriverOp
  /\ \/ \E h \in Heights :
          /\ Observe(h)
          /\ last_height' = h
          /\ scroll_attempts' = 0
          /\ scrolled' = scrolled \cup {scrollable_element}
          /\ sp' = "scroll"
          /\ UNCHANGED businesses
     \/ Caught /\ UNCHANGED <<last_height, scroll_attempts, scrolled, heights>>
  /\ UNCHANGED <<mainVars, keyword, district, scrollable_element, new_height,
                 page_source, tried>>

\* Compare with line 106 breaking once the counter reaches max_scroll_attempts
CompareAtThreshold(h) ==
  IF h = last_height
  THEN /\ scroll_attempts' = scroll_attempts + 1
       /\ IF scroll_attempts + 1 >= max_scroll_attempts
          THEN sp' = "source" /\ UNCHANGED last_height
          ELSE sp' = "scroll" /\ last_height' = h
  ELSE /\ scroll_attempts' = 0
       /\ last_height' = h
       /\ sp' = "scroll"

\* Compare without the reset of line 110
CompareNoReset(h) ==
  IF h = last_height
  THEN /\ scroll_attempts' = scroll_attempts + 1
       /\ IF scroll_attempts + 1 > max_scroll_attempts
          THEN sp' = "source" /\ UNCHANGED last_height
          ELSE sp' = "scroll" /\ last_height' = h
  ELSE /\ UNCHANGED scroll_attempts
       /\ last_height' = h
       /\ sp' = "scroll"

\* Compare with line 104 testing for growth, new_height <= last_height being a stall
CompareGrowthOnly(h) ==
  IF h <= last_height
  THEN /\ scroll_attempts' = scroll_attempts + 1
       /\ IF scroll_attempts + 1 > max_scroll_attempts
          THEN sp' = "source" /\ UNCHANGED last_height
          ELSE sp' = "scroll" /\ last_height' = h
  ELSE /\ scroll_attempts' = 0
       /\ last_height' = h
       /\ sp' = "scroll"

\* lines 104-111, given the new_height of line 103
Compare(h) ==
  IF h = last_height
  THEN /\ scroll_attempts' = scroll_attempts + 1
       /\ IF scroll_attempts + 1 > max_scroll_attempts
          THEN sp' = "source" /\ UNCHANGED last_height
          ELSE sp' = "scroll" /\ last_height' = h
  ELSE /\ scroll_attempts' = 0
       /\ last_height' = h
       /\ sp' = "scroll"

\* lines 100-111: one iteration of the while loop; either execute_script may raise
ScrollAndMeasure ==
  /\ sp = "scroll"
  /\ DriverOp
  /\ \/ \E h \in Heights :
          /\ Observe(h)
          /\ new_height' = h
          /\ scrolled' = scrolled \cup {scrollable_element}
          /\ Compare(h)
          /\ UNCHANGED businesses
     \/ Caught /\ UNCHANGED <<loopVars, scrolled, heights>>
  /\ UNCHANGED <<mainVars, keyword, district, scrollable_element, page_source, tried>>

\* lines 114-115: page_source is read and parsed; Pages are the pages it may hold
ReadAndParse(Pages) ==
  /\ sp = "source"
  /\ DriverOp
  /\ \/ \E page \in Pages :
          /\ page_source' = page
          /\ businesses' = parse_results(page, district, keyword)
          /\ sp' = "return"
     \/ Caught /\ UNCHANGED page_source
  /\ UNCHANGED <<heights, mainVars, keyword, district, scrollable_element, loopVars, tried, scrolled>>

(***************************************************************************)
(* main, lines 188-227, and close, lines 183-186.                          *)
(***************************************************************************)
\* lines 201-206 and 65-70: the next (district, keyword) pair is taken and
\* search_and_scrape is entered
MainCall ==
  /\ pc = "for" /\ qi < Len(Queries)
  /\ qi' = qi + 1
  /\ pc' = "call"
  /\ sp' = "get"
  /\ keyword' = Queries[qi + 1].keyword
  /\ district' = Queries[qi + 1].district
  /\ businesses' = <<>>
  /\ UNCHANGED <<heights, all_businesses, save_calls, save_arg, files_written, csv_rows,
                 log_critical, driverVars, scrollable_element, loopVars, page_source,
                 tried, scrolled>>

\* the frame of search_and_scrape is gone
Unwind ==
  /\ sp' = "idle" /\ keyword' = "" /\ district' = ""
  /\ businesses' = <<>> /\ scrollable_element' = "None"
  /\ last_height' = 0 /\ new_height' = 0 /\ scroll_attempts' = 0
  /\ page_source' = <<>> /\ tried' = <<>> /\ scrolled' = {}

\* lines 206-213: search_and_scrape has returned
MainCollect ==
  /\ pc = "call" /\ sp = "return"
  /\ all_businesses' = IF businesses # <<>> THEN all_businesses \o businesses
                       ELSE all_businesses
  /\ pc' = "for"
  /\ Unwind
  /\ UNCHANGED <<heights, qi, save_calls, save_arg, files_written, csv_rows, log_critical,
                 driverVars>>

\* line 206 to line 222: search_and_scrape has raised
MainPropagate ==
  /\ pc = "call" /\ sp = "raised"
  /\ pc' = "except"
  /\ Unwind
  /\ UNCHANGED <<heights, qi, all_businesses, save_calls, save_arg, files_written, csv_rows,
                 log_critical, driverVars>>

\* lines 215-220 and 165-181: after the loops; to_csv writes the file or raises
MainSave ==
  /\ pc = "for" /\ qi = Len(Queries)
  /\ IF all_businesses # <<>>
     THEN /\ save_calls' = save_calls + 1
          /\ save_arg' = all_businesses
          /\ \/ /\ csv_rows' = save_to_csv_rows(all_businesses)
                /\ files_written' = files_written + 1
                /\ pc' = "finally"
             \/ /\ pc' = "except"
                /\ UNCHANGED <<csv_rows, files_written>>
     ELSE /\ pc' = "finally"
          /\ UNCHANGED <<save_calls, save_arg, csv_rows, files_written>>
  /\ UNCHANGED <<heights, qi, all_businesses, log_critical, driverVars, frameVars>>

\* MainExcept with the handler ending the run, the finally clause not run
MainExceptNoCleanup ==
  /\ pc = "except"
  /\ log_critical' = TRUE
  /\ pc' = "done"
  /\ UNCHANGED <<heights, qi, all_businesses, save_calls, save_arg, files_written, csv_rows,
                 driverVars, frameVars>>

\* lines 222-223
MainExcept ==
  /\ pc = "except"
  /\ log_critical' = TRUE
  /\ pc' = "finally"
  /\ UNCHANGED <<heights, qi, all_businesses, save_calls, save_arg, files_written, csv_rows,
                 driverVars, frameVars>>

\* lines 183-186: self.driver is the WebDriver object, which is truthy
close ==
  /\ quit_calls' = quit_calls + 1
  /\ driver' = "closed"
  /\ UNCHANGED late_ops

\* lines 225-227: quit returns, or raises out of main
MainFinally ==
  /\ pc = "finally"
  /\ close
  /\ \E ok \in BOOLEAN : pc' = IF ok THEN "done" ELSE "crashed"
  /\ UNCHANGED <<heights, qi, all_businesses, save_calls, save_arg, files_written, csv_rows,
                 log_critical, frameVars>>

(***************************************************************************)
(* Inputs.                                                                 *)
(***************************************************************************)
\* a listing with all three tags, and one without the name element
ListingA == Listing(Tag(<<"a">>), Tag(<<"1">>), Tag(<<"x">>))
ListingNoName == Listing(Absent, Tag(<<"1">>), Tag(<<"x">>))

\* the pages a query of a whole run may load
MainPages == SeqsUpTo({ListingA, ListingNoName}, MaxListings)

(***************************************************************************)
(* The run of main.                                                        *)
(***************************************************************************)
Next ==
  \/ MainCall
  \/ Navigate
  \/ HandleConsent
  \/ WaitResults
  \/ LocateResults
  \/ LocateFeed
  \/ LocateBody
  \/ MeasureInitial
  \/ ScrollAndMeasure
  \/ ReadAndParse(MainPages)
  \/ MainCollect
  \/ MainPropagate
  \/ MainSave
  \/ MainExcept
  \/ MainFinally

Spec == Init /\ [][Next]_vars

(***************************************************************************)
(* search_and_scrape called on its own with the first query of main, the   *)
(* heights the page reports being logged.                                  *)
(***************************************************************************)
Chain == <<"results", "feed", "body">>

InitScrape ==
  /\ pc = "direct" /\ qi = 0 /\ all_businesses = <<>>
  /\ save_calls = 0 /\ save_arg = <<>> /\ files_written = 0 /\ csv_rows = <<>>
  /\ log_critical = FALSE
  /\ driver = "open" /\ quit_calls = 0 /\ late_ops = FALSE
  /\ keyword = Queries[1].keyword /\ district = Queries[1].district
  /\ sp = "get" /\ businesses = <<>> /\ scrollable_element = "None"
  /\ last_height = 0 /\ new_height = 0 /\ scroll_attempts = 0
  /\ page_source = <<>> /\ tried = <<>> /\ scrolled = {}
  /\ heights = <<>>

NextScrape ==
  \/ Navigate
  \/ HandleConsent
  \/ WaitResults
  \/ LocateResults
  \/ LocateFeed
  \/ LocateBody
  \/ MeasureInitial
  \/ ScrollAndMeasure
  \/ ReadAndParse(MainPages)

SpecScrape == InitScrape /\ [][NextScrape]_vars

(***************************************************************************)
(* parse_results applied to the pages of ParsePages: search_and_scrape      *)
(* called on its own has left its scroll loop and is at line 114.          *)
(***************************************************************************)
Chars == {"a", " ", MiddleDot}

NameTags == {Absent, Tag(<<>>), Tag(NA), Tag(<<"a">>)}
PhoneTags == {Absent, Tag(<<"1">>)}

\* pages whose listings differ in the name and in which tags are present
NamePages ==
  SeqsUpTo({Listing(n, ph, a) : n \in NameTags, ph \in PhoneTags,
                                a \in {Absent, Tag(<<"a", MiddleDot, "a">>)}},
           MaxListings)

\* pages of one named listing, with every address text of at most MaxText characters
AddressPages ==
  {<<Listing(Tag(<<"a">>), Absent, Tag(t))>> : t \in SeqsUpTo(Chars, MaxText)}

ParsePages == NamePages \cup AddressPages

InitParse ==
  /\ pc = "direct" /\ qi = 0 /\ all_businesses = <<>>
  /\ save_calls = 0 /\ save_arg = <<>> /\ files_written = 0 /\ csv_rows = <<>>
  /\ log_critical = FALSE
  /\ driver = "open" /\ quit_calls = 0 /\ late_ops = FALSE
  /\ \E q \in 1..Len(Queries) :
       keyword = Queries[q].keyword /\ district = Queries[q].district
  /\ sp = "source" /\ businesses = <<>>
  /\ \E n \in 1..Len(Chain) :
       /\ scrollable_element = Chain[n]
       /\ tried = SubSeq(Chain, 1, n)
       /\ scrolled = {Chain[n]}
  /\ last_height = 1 /\ new_height = 1
  /\ scroll_attempts = max_scroll_attempts + 1
  /\ heights = [i \in 1..(max_scroll_attempts + 2) |-> 1]
  /\ page_source = <<>>

NextParse == ReadAndParse(ParsePages)

SpecParse == InitParse /\ [][NextParse]_vars

(***************************************************************************)
(* The end of main, from line 215 on, for every accumulation the query     *)
(* loop can have built from the pages of SavePages.                        *)
(***************************************************************************)
\* the same name and address with and without a phone, and the same name with no address
SaveListings ==
  {Listing(Tag(<<"a">>), Tag(<<"1">>), Tag(<<"x">>)),
   Listing(Tag(<<"a">>), Absent,       Tag(<<"x">>)),
   Listing(Tag(<<"a">>), Tag(<<"1">>), Absent)}

SavePages == SeqsUpTo(SaveListings, MaxSaveListings)

RECURSIVE Accumulations(_)
\* the values of all_businesses after the first k queries have returned
Accumulations(k) ==
  IF k = 0 THEN {<<>>}
  ELSE {acc \o parse_results(page, Queries[k].district, Queries[k].keyword) :
          acc \in Accumulations(k - 1), page \in SavePages}

InitSave ==
  /\ pc = "for" /\ qi = Len(Queries)
  /\ all_businesses \in Accumulations(Len(Queries))
  /\ save_calls = 0 /\ save_arg = <<>> /\ files_written = 0 /\ csv_rows = <<>>
  /\ log_critical = FALSE
  /\ driver = "open" /\ quit_calls = 0 /\ late_ops = FALSE
  /\ NoFrame
  /\ heights = <<>>

NextSave ==
  \/ MainSave
  \/ MainExcept
  \/ MainFinally

SpecSave == InitSave /\ [][NextSave]_vars

(***************************************************************************)
(* Properties of the scroll loop, checked under SpecScrape.                *)
(***************************************************************************)
\* the scroll-and-measure iterations completed: every measurement but the initial one
Iterations == Len(heights) - 1

\* every measurement taken in the loop equals the initial measurement
NeverChanged == heights # <<>> /\ \A i \in 1..Len(heights) : heights[i] = heights[1]

\* the newest measurement is greater than the one before it
GrewLast == Len(heights) >= 2 /\ heights[Len(heights)] > heights[Len(heights) - 1]

\* the newest measurement differs from the one before it
ChangedLast == Len(heights) >= 2 /\ heights[Len(heights)] # heights[Len(heights) - 1]

\* the last 11 measurements all equal the measurement before them
Stable11 ==
  /\ Len(heights) >= 12
  /\ \A i \in (Len(heights) - 10)..Len(heights) : heights[i] = heights[i - 1]

\* C3: when every measurement in the loop equals the initial one, the loop is
\* still running after fewer than 11 iterations and has broken after exactly 11:
\* it never runs a 12th, and it does not break at the 10th.
C3_StallTerminates ==
  NeverChanged =>
    /\ Iterations <= 11
    /\ (sp = "scroll" => Iterations <= 10)
    /\ (sp = "source" => Iterations = 11 /\ scroll_attempts = 11)
    /\ (Iterations = 11 => sp # "scroll")

\* C3 witness: the loop has broken after 11 iterations that all measured the
\* initial height
C3_Witness == NeverChanged /\ sp = "source" /\ Iterations = 11

\* C4: after a measurement greater than the previous one the loop goes on, the
\* stall counter is 0 and last_height is that measurement, whatever came before.
C4_ResetOnGrowth ==
  (GrewLast /\ sp \in {"scroll", "source"}) =>
    /\ sp = "scroll"
    /\ scroll_attempts = 0
    /\ last_height = heights[Len(heights)]

\* C4 witness: a growth, 10 unchanged measurements, a further growth, and the
\* loop is still running with the counter at 0
C4_Witness ==
  /\ sp = "scroll"
  /\ Len(heights) = 13
  /\ heights[2] > heights[1]
  /\ \A i \in 3..12 : heights[i] = heights[2]
  /\ heights[13] > heights[12]
  /\ scroll_attempts = 0
  /\ last_height = heights[13]

Finished == pc \in {"done", "crashed"}

\* C1: search_and_scrape never raises to its caller: no step of it leaves the
\* call with an exception in flight.
C1_NeverRaises == sp # "raised"

\* C2: a run that accumulated records has attempted every query and has called
\* save_to_csv exactly once, with all accumulated records, by the time the
\* browser is closed.
C2_AccumulatedIsSaved ==
  (driver = "closed" /\ all_businesses # <<>>) =>
    /\ qi = Len(Queries)
    /\ save_calls = 1
    /\ save_arg = all_businesses

\* C7: driver.quit() is called at most once, and exactly once by the end of a
\* run, however the run ends; no driver operation follows it; while main is
\* still at work the session is open, and once it is closed no query is active
\* or started.
C7_QuitOnceAndLast ==
  /\ quit_calls <= 1
  /\ ~late_ops
  /\ (Finished => quit_calls = 1 /\ driver = "closed")
  /\ (~Finished => quit_calls = 0 /\ driver = "open")
  /\ (driver = "closed" => sp = "idle" /\ Finished)

\* C7 witness: a run in which an exception reached the handler of line 222 has
\* ended with the one quit
C7_Witness == pc = "done" /\ log_critical /\ quit_calls = 1 /\ driver = "closed"

\* C9: the locators are evaluated in the order 'Results for', feed, body, each
\* only after the ones before it have failed; the element found is that of the
\* last locator evaluated and is the only element scrolled and measured; when
\* all three fail the call returns no record and nothing was scrolled.
C9_FallbackChain ==
  /\ Len(tried) <= Len(Chain) /\ tried = SubSeq(Chain, 1, Len(tried))
  /\ (scrollable_element # "None" =>
        tried # <<>> /\ scrollable_element = tried[Len(tried)])
  /\ (scrollable_element = "None" => scrolled = {})
  /\ scrolled \subseteq {scrollable_element}
  /\ (sp \in {"scroll", "source"} => scrolled = {scrollable_element})
  /\ (sp = "height" => scrollable_element # "None")
  /\ (tried = Chain /\ scrollable_element = "None" =>
        sp = "return" /\ businesses = <<>>)

\* C9 witness: all three locators have failed and the call returns no record
C9_Witness ==
  /\ tried = Chain /\ scrollable_element = "None"
  /\ sp = "return" /\ businesses = <<>> /\ scrolled = {}

(***************************************************************************)
(* Properties of parse_results, checked under SpecParse.                   *)
(***************************************************************************)
\* C6: every record parse_results returns has a name that is neither empty nor
\* the sentinel.
C6_NamesPresent ==
  \A i \in 1..Len(businesses) : businesses[i].name # <<>> /\ businesses[i].name # NA

\* the listings of the page whose name element is present and is not the sentinel
NamedListings ==
  SelectSeq(page_source, LAMBDA l : l.name_tag.present /\ l.name_tag.text # NA)

\* the positions of the separator in a text
DotsOf(text) == {i \in 1..Len(text) : text[i] = MiddleDot}

\* the text after the last separator
LastSegment(text) ==
  LET last == CHOOSE i \in DotsOf(text) : \A j \in DotsOf(text) : j <= i
  IN  SubSeq(text, last + 1, Len(text))

\* a text without its leading and trailing whitespace
Trimmed(text) ==
  LET solid == {i \in 1..Len(text) : text[i] \notin Whitespace}
  IN  IF solid = {} THEN <<>>
      ELSE SubSeq(text, CHOOSE i \in solid : \A j \in solid : i <= j,
                        CHOOSE i \in solid : \A j \in solid : j <= i)

\* the address the claim gives for an address container
ClaimedAddress(container) ==
  IF ~container.present THEN <<>>
  ELSE IF DotsOf(container.text) # {} THEN LastSegment(container.text)
  ELSE container.text

\* the address of the amended claim: the last segment is trimmed
AmendedAddress(container) ==
  IF ~container.present THEN <<>>
  ELSE IF DotsOf(container.text) # {} THEN Trimmed(LastSegment(container.text))
  ELSE container.text

\* C8 as stated: the address of every record is the last segment of the
\* container's text after the last middle dot, or the whole text if there is
\* none, or the empty string if the container is absent.
C8_AddressAsClaimed ==
  /\ Len(businesses) = Len(NamedListings)
  /\ \A i \in 1..Len(businesses) :
       businesses[i].address = ClaimedAddress(NamedListings[i].address_container)

\* C8 amended: as stated, but the last segment is returned without its leading
\* and trailing whitespace (the whole text of a container without a middle dot
\* is returned as it is, whitespace included).
C8_AddressTrimmed ==
  /\ Len(businesses) = Len(NamedListings)
  /\ \A i \in 1..Len(businesses) :
       businesses[i].address = AmendedAddress(NamedListings[i].address_container)

\* C8 witness: the text "a · a" (the shape of "123 Main St · Dhaka") has given
\* the address "a"
C8_Witness ==
  /\ sp = "return"
  /\ Len(page_source) = 1
  /\ page_source[1].address_container = Tag(<<"a", " ", MiddleDot, " ", "a">>)
  /\ Len(businesses) = 1
  /\ businesses[1].address = <<"a">>

(***************************************************************************)
(* Properties of save_to_csv, checked under SpecSave.                      *)
(***************************************************************************)
\* the first position of a row's (name, address) pair in the input
FirstIndex(rows, row) ==
  CHOOSE i \in 1..Len(rows) :
    /\ dedup_key(rows[i]) = dedup_key(row)
    /\ \A j \in 1..(i - 1) : dedup_key(rows[j]) # dedup_key(row)

\* C5: the rows written have pairwise different (name, address) pairs, every
\* pair of the input is among them, each written row is the first input record
\* with its pair, and the written rows are in input order.
C5_DedupKeepsFirst ==
  files_written > 0 =>
    /\ \A i, j \in 1..Len(csv_rows) :
         i # j => dedup_key(csv_rows[i]) # dedup_key(csv_rows[j])
    /\ \A i \in 1..Len(save_arg) :
         \E j \in 1..Len(csv_rows) : dedup_key(csv_rows[j]) = dedup_key(save_arg[i])
    /\ \A j \in 1..Len(csv_rows) :
         /\ \E i \in 1..Len(save_arg) : dedup_key(save_arg[i]) = dedup_key(csv_rows[j])
         /\ csv_rows[j] = save_arg[FirstIndex(save_arg, csv_rows[j])]
    /\ \A j, k \in 1..Len(csv_rows) :
         j < k => FirstIndex(save_arg, csv_rows[j]) < FirstIndex(save_arg, csv_rows[k])

\* C5 witness: a file was written from an input in which a later record repeats
\* the (name, address) pair of an earlier one with another phone and category,
\* and a record with a new pair follows it
C5_Witness ==
  /\ files_written = 1
  /\ save_arg = all_businesses
  /\ Len(csv_rows) < Len(save_arg)
  /\ \E i, j, k \in 1..Len(save_arg) :
       /\ i < j /\ j < k
       /\ dedup_key(save_arg[i]) = dedup_key(save_arg[j])
       /\ save_arg[i].phone # save_arg[j].phone
       /\ save_arg[i].category # save_arg[j].category
       /\ dedup_key(save_arg[k]) \notin {dedup_key(save_arg[m]) : m \in 1..(k - 1)}
====
